---- MODULE Spec2Model ----
(***************************************************************************)
(* dehydrated-cloudflare: the DNS-01 hook of src/dehydrated-cloudflare.py. *)
(*                                                                         *)
(* A string is a sequence of tokens: "." is the separator token, every     *)
(* other token is a dot-free chunk of text, so that a.b.example.com is     *)
(* <<"a", ".", "b", ".", "example", ".", "com">>.  split and join are      *)
(* computed on that representation.                                        *)
(*                                                                         *)
(* One hook invocation is a process that goes through main(): every        *)
(* provider call is a step of its own, and every provider call may raise   *)
(* CloudFlareAPIError.  The provider lists zones and records in a fixed    *)
(* order, so that zones[0] and records[0] are the first of the listing.    *)
(* log, loaded, prev, origin, evicted and wrote are history variables:     *)
(* they record what an invocation did and take no part in what it does.    *)
(*                                                                         *)
(* Spec runs the hook serially, as dehydrated does.  SpecAcct changes the  *)
(* account between runs, SpecWarm starts on a cache file of earlier runs,  *)
(* SpecConc runs two hook processes in parallel with _save_cache in its    *)
(* two steps (open, then write), SpecLive adds the fairness of the         *)
(* propagation loop, and SpecIter runs _iter_domain on its own.            *)
(***************************************************************************)
EXTENDS Integers, Sequences, FiniteSets, TLC

VARIABLES
    zones,          \* provider: the zones of the account, in listing order
    records,        \* provider: the TXT records [id, zone, name, content, ttl], in listing order
    dns,            \* what a TXT query sees: a set of <<name, content>>
    cache_file,     \* the file CF_CACHEFILE: [isfile, data, account, zone, mode],
                    \* data "json" when json.load can parse the bytes
    now,            \* time.time()
    runs,           \* number of hook invocations started so far
    pc,             \* per process: position in main()
    argv,           \* per process: [op, domain, token]
    env,            \* per process: [CF_API_EMAIL]
    zone_id_cache,  \* per process: self._zone_id_cache
    cache_changed,  \* per process: self._cache_changed
    dom_idx,        \* per process: dom_idx of the running _iter_domain generator
    zone_id,        \* per process: local zone_id of the handler
    record_id,      \* per process: local record_id of the handler
    propagated,     \* per process: last value returned by _dns_propagated
    log,            \* per process: provider calls issued by the current invocation
    loaded,         \* per process: self._zone_id_cache as _load_cache left it
    prev,           \* per process: summary of the invocation before the current one
    origin,         \* history: the account under which each entry of the file and
                    \* of each process's cache was obtained
    evicted,        \* history, per process: the entries _zone_id_from_cache deleted
    wrote,          \* history, per process: _save_cache wrote the file
    gen             \* a stand-alone _iter_domain generator: [domain, dom_idx, out]

provVars == <<zones, records, dns>>
procVars == <<pc, argv, env, zone_id_cache, cache_changed, dom_idx, zone_id,
              record_id, propagated, log, loaded, prev>>
histVars == <<origin, evicted, wrote>>
vars == <<zones, records, dns, cache_file, now, runs, pc, argv, env,
          zone_id_cache, cache_changed, dom_idx, zone_id, record_id,
          propagated, log, loaded, prev, origin, evicted, wrote, gen>>

----------------------------------------------------------------------------
(* Bounds of the model *)

MaxRuns == 2        \* hook invocations per behaviour
MaxTime == 2        \* the clock stops ticking here
MaxStrLen == 4      \* longest string handed to the stand-alone generator

(* Configuration read from the environment *)

CF_CACHETIME == 2   \* int(os.environ.get("CF_CACHETIME", ...)), in clock ticks
CF_CACHEFMODE == 384 \* int(os.environ.get("CF_CACHEFMODE", "600"), base=8)
RECORD_TTL == 120   \* "ttl": 120

None == "None"
\* the cache file before any invocation saved it
NoFile == [isfile |-> FALSE, data |-> "empty", account |-> "",
           zone |-> [k \in {} |-> "None"], mode |-> 0]

\* the hook processes; dehydrated runs its hook serially, as process 1
Procs == {1, 2}
Serial == {1}
Accounts == {"acct"}
Tokens == {"t1", "t2"}

----------------------------------------------------------------------------
(* Strings *)

Dot == "."

RECURSIVE IndexOfDot(_, _)
\* s.find("."), 1-based from position i; 0 when there is none
IndexOfDot(s, i) ==
    IF i > Len(s) THEN 0
    ELSE IF s[i] = Dot THEN i
    ELSE IndexOfDot(s, i + 1)

RECURSIVE Split(_)
\* domain.split(".")
Split(s) ==
    LET i == IndexOfDot(s, 1) IN
    IF i = 0 THEN <<s>>
    ELSE <<SubSeq(s, 1, i - 1)>> \o Split(SubSeq(s, i + 1, Len(s)))

RECURSIVE Join(_)
\* ".".join(parts)
Join(parts) ==
    IF Len(parts) = 0 THEN <<>>
    ELSE IF Len(parts) = 1 THEN parts[1]
    ELSE parts[1] \o <<Dot>> \o Join(Tail(parts))

\* "_acme-challenge.%s" % domain
RecordName(d) == <<"_acme-challenge", Dot>> \o d

a_b_example_com == <<"a", Dot, "b", Dot, "example", Dot, "com">>
b_example_com == <<"b", Dot, "example", Dot, "com">>
example_com == <<"example", Dot, "com">>

Domains == {a_b_example_com}

----------------------------------------------------------------------------
(* _iter_domain: the generator's state is dom_idx; dom is Split(domain) *)

\* dom = domain.split("."); dom_idx = len(dom)
IterStart(d) == Len(Split(d))

\* while dom_idx > 0
IterHasNext(d, i) == i > 0

\* yield ".".join(dom[dom_idx-1:])
IterYield(d, i) == LET dom == Split(d) IN Join(SubSeq(dom, i, Len(dom)))

\* dom_idx -= 1
IterAdvance(i) == i - 1

\* the stand-alone generator: created, not yet resumed
NewGen(d) == [domain |-> d, state |-> "created", dom_idx |-> 0, out |-> <<>>]

NoGen == NewGen(<<>>)

----------------------------------------------------------------------------
(* The provider API (CloudFlare) and the DNS, as the hook consumes them *)

ZoneUniverse ==
    << [id |-> "Z1", name |-> example_com],
       [id |-> "Z2", name |-> b_example_com],
       [id |-> "Z3", name |-> example_com] >>

RECURSIVE SubLists(_)
\* every sub-list of a list, order kept
SubLists(s) ==
    IF s = <<>> THEN {<<>>}
    ELSE LET rest == SubLists(Tail(s)) IN
         rest \cup {<<Head(s)>> \o r : r \in rest}

\* GET zones?name=<exact>
ZonesByName(name) == SelectSeq(zones, LAMBDA z : z.name = name)

\* the record query without its content parameter
DnsRecordsGet_any_content(zone, name, content) ==
    SelectSeq(records, LAMBDA r : r.zone = zone /\ r.name = name)

\* GET zones/{id}/dns_records?type=TXT&name=<name>&content=<content>
DnsRecordsGet(zone, name, content) ==
    SelectSeq(records, LAMBDA r : r.zone = zone /\ r.name = name /\ r.content = content)

RECURSIVE FreshId(_)
\* the id the provider gives to a new record
FreshId(n) ==
    IF \E i \in DOMAIN records : records[i].id = ToString(n)
    THEN FreshId(n + 1)
    ELSE ToString(n)

\* POST zones/{id}/dns_records
DnsRecordsPost(zone, data) ==
    Append(records, [id |-> FreshId(1), zone |-> zone, name |-> data.name,
                     content |-> data.content, ttl |-> data.ttl])

\* DELETE zones/{id}/dns_records/{id}
DnsRecordsDelete(zone, id) ==
    SelectSeq(records, LAMBDA r : ~(r.zone = zone /\ r.id = id))

\* the TXT record set the resolvers would serve once every change has spread
Published == {<<records[i].name, records[i].content>> : i \in DOMAIN records}

----------------------------------------------------------------------------
(* The zone cache *)

CacheDel(c, d) == [k \in DOMAIN c \ {d} |-> c[k]]

CachePut(c, d, e) == [k \in DOMAIN c \cup {d} |-> IF k = d THEN e ELSE c[k]]

EmptyCache == [k \in {} |-> None]

\* _zone_id_from_cache forgetting the del of the expired entry
zone_id_from_cache_keep(c, d, t) ==
    IF d \in DOMAIN c
    THEN IF t - c[d].created >= CF_CACHETIME
         THEN [ret |-> None, cache |-> c]
         ELSE [ret |-> c[d].id, cache |-> c]
    ELSE [ret |-> None, cache |-> c]

\* _zone_id_from_cache: the value returned and the cache it leaves
zone_id_from_cache(c, d, t) ==
    IF d \in DOMAIN c
    THEN IF t - c[d].created >= CF_CACHETIME
         THEN [ret |-> None, cache |-> CacheDel(c, d)]
         ELSE [ret |-> c[d].id, cache |-> c]
    ELSE [ret |-> None, cache |-> c]

\* _zone_id_to_cache: the cache it leaves (and _cache_changed = True)
zone_id_to_cache(c, d, id, t) == CachePut(c, d, [id |-> id, created |-> t])

\* _zone_id_to_cache leaving _cache_changed as it was
cache_changed_as_before(changed) == changed

\* _zone_id_to_cache: the value it leaves in _cache_changed
cache_changed_to_cache(changed) == TRUE

\* _get_txt_record_id taking a single result for none
get_txt_record_id_single(zone, name, tok) ==
    LET recs == DnsRecordsGet(zone, name, tok) IN
    IF Len(recs) <= 1 THEN None ELSE recs[1].id

\* _get_txt_record_id, given the provider's answer
get_txt_record_id(zone, name, tok) ==
    LET recs == DnsRecordsGet(zone, name, tok) IN
    IF Len(recs) = 0 THEN None ELSE recs[1].id

----------------------------------------------------------------------------
(* The hook process *)

Actions == {"deploy_challenge", "clean_challenge"}

NoArgv == [op |-> "", domain |-> <<>>, token |-> ""]
NoRun == [pc |-> "idle", argv |-> NoArgv, account |-> "", log |-> <<>>,
          zone_id |-> None, record_id |-> None, propagated |-> FALSE]

Summary(p) == [pc |-> pc[p], argv |-> argv[p], account |-> env[p].CF_API_EMAIL,
               log |-> log[p], zone_id |-> zone_id[p], record_id |-> record_id[p],
               propagated |-> propagated[p]]

\* one provider call, as the log keeps it
Call(c, zone, name, content, id, ok) ==
    [call |-> c, zone |-> zone, name |-> name, content |-> content, id |-> id, ok |-> ok]

Logged(p, e) == log' = [log EXCEPT ![p] = Append(@, e)]

\* no entry, so no account to name
NoOrigin == [k \in {} |-> ""]

\* no process has run yet
IdleProcs ==
    /\ pc = [p \in Procs |-> "idle"]
    /\ argv = [p \in Procs |-> NoArgv]
    /\ env = [p \in Procs |-> [CF_API_EMAIL |-> ""]]
    /\ zone_id_cache = [p \in Procs |-> EmptyCache]
    /\ cache_changed = [p \in Procs |-> FALSE]
    /\ dom_idx = [p \in Procs |-> 0]
    /\ zone_id = [p \in Procs |-> None]
    /\ record_id = [p \in Procs |-> None]
    /\ propagated = [p \in Procs |-> FALSE]
    /\ log = [p \in Procs |-> <<>>]
    /\ loaded = [p \in Procs |-> EmptyCache]
    /\ prev = [p \in Procs |-> NoRun]
    /\ evicted = [p \in Procs |-> {}]
    /\ wrote = [p \in Procs |-> FALSE]

\* the hook before its first invocation: nothing loaded, no cache file
IdleHook ==
    /\ dns = Published
    /\ cache_file = NoFile
    /\ origin = [file |-> NoOrigin, mem |-> [p \in Procs |-> NoOrigin]]
    /\ now = 0
    /\ runs = 0
    /\ IdleProcs

\* a challenge record that an earlier certificate run left behind in zone Z1
LeftOver ==
    [id |-> "1", zone |-> "Z1", name |-> RecordName(a_b_example_com),
     content |-> "t2", ttl |-> RECORD_TTL]

Init ==
    /\ zones \in SubLists(ZoneUniverse)
    /\ records \in {<<>>} \cup {<<LeftOver>> : i \in {j \in DOMAIN zones : zones[j].id = "Z1"}}
    /\ IdleHook
    /\ gen = NoGen

\* CloudFlareHook() and main(argv) up to the dispatch on argv[0]
Start(p, o, d, t, acct) ==
    /\ pc[p] \in {"idle", "done", "crashed"}
    /\ runs < MaxRuns
    /\ runs' = runs + 1
    /\ prev' = [prev EXCEPT ![p] = Summary(p)]
    /\ argv' = [argv EXCEPT ![p] = [op |-> o, domain |-> d, token |-> t]]
    /\ env' = [env EXCEPT ![p] = [CF_API_EMAIL |-> acct]]
    /\ zone_id_cache' = [zone_id_cache EXCEPT ![p] = EmptyCache]
    /\ cache_changed' = [cache_changed EXCEPT ![p] = FALSE]
    /\ dom_idx' = [dom_idx EXCEPT ![p] = 0]
    /\ zone_id' = [zone_id EXCEPT ![p] = None]
    /\ record_id' = [record_id EXCEPT ![p] = None]
    /\ propagated' = [propagated EXCEPT ![p] = FALSE]
    /\ log' = [log EXCEPT ![p] = <<>>]
    /\ loaded' = [loaded EXCEPT ![p] = EmptyCache]
    /\ origin' = [origin EXCEPT !.mem[p] = NoOrigin]
    /\ evicted' = [evicted EXCEPT ![p] = {}]
    /\ wrote' = [wrote EXCEPT ![p] = FALSE]
    /\ pc' = [pc EXCEPT ![p] = IF o \in Actions THEN "load_cache" ELSE "done"]
    /\ UNCHANGED <<provVars, cache_file, now, gen>>

\* _load_cache without the comparison of the accounts
cache_loaded_any_account(f, acct, c) ==
    IF ~f.isfile THEN [cache |-> c, read |-> FALSE]
    ELSE [cache |-> f.zone, read |-> TRUE]

\* _load_cache on a readable file f: the cache it leaves in place of cache c
\* for the account acct, and whether that is the content of the file
cache_loaded(f, acct, c) ==
    IF ~f.isfile THEN [cache |-> c, read |-> FALSE]
    ELSE IF f.account # acct THEN [cache |-> c, read |-> FALSE]
    ELSE [cache |-> f.zone, read |-> TRUE]

\* _load_cache, then the handler's call of _get_zone_id starts the generator
load_cache(p) ==
    /\ pc[p] = "load_cache"
    /\ IF cache_file.isfile /\ cache_file.data # "json"
       THEN \* json.load raises, caught nowhere
            /\ pc' = [pc EXCEPT ![p] = "crashed"]
            /\ UNCHANGED <<zone_id_cache, loaded, cache_changed, dom_idx, origin>>
       ELSE /\ LET c == cache_loaded(cache_file, env[p].CF_API_EMAIL, zone_id_cache[p])
               IN /\ zone_id_cache' = [zone_id_cache EXCEPT ![p] = c.cache]
                  /\ loaded' = [loaded EXCEPT ![p] = c.cache]
                  /\ origin' = [origin EXCEPT !.mem[p] =
                                   IF c.read THEN origin.file ELSE @]
            /\ cache_changed' = [cache_changed EXCEPT ![p] = FALSE]
            /\ dom_idx' = [dom_idx EXCEPT ![p] = IterStart(argv[p].domain)]
            /\ pc' = [pc EXCEPT ![p] = "get_zone_id"]
    /\ UNCHANGED <<provVars, cache_file, now, runs, argv, env, zone_id, record_id,
                   propagated, log, prev, evicted, wrote, gen>>

\* _get_zone_id: the loop head and the cache lookup for the next candidate
get_zone_id(p) ==
    /\ pc[p] = "get_zone_id"
    /\ IF ~IterHasNext(argv[p].domain, dom_idx[p])
       THEN /\ zone_id' = [zone_id EXCEPT ![p] = None]
            /\ pc' = [pc EXCEPT ![p] = "get_txt_record_id"]
            /\ UNCHANGED <<zone_id_cache, origin, evicted>>
       ELSE LET dom == IterYield(argv[p].domain, dom_idx[p])
                r == zone_id_from_cache(zone_id_cache[p], dom, now)
                gone == DOMAIN zone_id_cache[p] \ DOMAIN r.cache
            IN /\ zone_id_cache' = [zone_id_cache EXCEPT ![p] = r.cache]
               /\ origin' = [origin EXCEPT !.mem[p] = [k \in DOMAIN r.cache |-> @[k]]]
               /\ evicted' = [evicted EXCEPT ![p] =
                                @ \cup {[name |-> k, entry |-> zone_id_cache[p][k]] : k \in gone}]
               /\ IF r.ret # None
                  THEN /\ zone_id' = [zone_id EXCEPT ![p] = r.ret]
                       /\ pc' = [pc EXCEPT ![p] = "get_txt_record_id"]
                  ELSE /\ pc' = [pc EXCEPT ![p] = "zones_get"]
                       /\ UNCHANGED zone_id
    /\ UNCHANGED <<provVars, cache_file, now, runs, argv, env, cache_changed, dom_idx,
                   record_id, propagated, log, loaded, prev, wrote, gen>>

\* _get_zone_id: the provider query for the candidate and what follows it
zones_get(p) ==
    /\ pc[p] = "zones_get"
    /\ LET dom == IterYield(argv[p].domain, dom_idx[p])
           zs == ZonesByName(dom)
       IN \/ \* CloudFlareAPIError, caught nowhere
             /\ Logged(p, Call("zones.get", None, dom, None, None, FALSE))
             /\ pc' = [pc EXCEPT ![p] = "crashed"]
             /\ UNCHANGED <<zone_id_cache, cache_changed, dom_idx, zone_id, origin>>
          \/ /\ Logged(p, Call("zones.get", None, dom, None, None, TRUE))
             /\ cache_changed' = [cache_changed EXCEPT ![p] = cache_changed_to_cache(@)]
             /\ origin' = [origin EXCEPT !.mem[p] =
                              [k \in DOMAIN @ \cup {dom} |->
                                  IF k = dom THEN env[p].CF_API_EMAIL ELSE @[k]]]
             /\ IF Len(zs) = 0
                THEN /\ zone_id_cache' = [zone_id_cache EXCEPT ![p] =
                                            zone_id_to_cache(@, dom, None, now)]
                     /\ dom_idx' = [dom_idx EXCEPT ![p] = IterAdvance(@)]
                     /\ pc' = [pc EXCEPT ![p] = "get_zone_id"]
                     /\ UNCHANGED zone_id
                ELSE /\ zone_id_cache' = [zone_id_cache EXCEPT ![p] =
                                            zone_id_to_cache(@, dom, zs[1].id, now)]
                     /\ zone_id' = [zone_id EXCEPT ![p] = zs[1].id]
                     /\ pc' = [pc EXCEPT ![p] = "get_txt_record_id"]
                     /\ UNCHANGED dom_idx
    /\ UNCHANGED <<provVars, cache_file, now, runs, argv, env, record_id, propagated,
                   loaded, prev, evicted, wrote, gen>>

\* _deploy_challenge: _get_txt_record_id and the branch on its result
deploy_challenge(p) ==
    /\ pc[p] = "get_txt_record_id"
    /\ argv[p].op = "deploy_challenge"
    /\ LET record_name == RecordName(argv[p].domain)
           rid == get_txt_record_id(zone_id[p], record_name, argv[p].token)
       IN \/ \* CloudFlareAPIError, caught nowhere
             /\ Logged(p, Call("dns_records.get", zone_id[p], record_name,
                               argv[p].token, None, FALSE))
             /\ pc' = [pc EXCEPT ![p] = "crashed"]
             /\ UNCHANGED record_id
          \/ /\ Logged(p, Call("dns_records.get", zone_id[p], record_name,
                               argv[p].token, None, TRUE))
             /\ record_id' = [record_id EXCEPT ![p] = rid]
             /\ pc' = [pc EXCEPT ![p] = IF rid # None THEN "save_cache"
                                        ELSE "dns_records_post"]
    /\ UNCHANGED <<provVars, cache_file, now, runs, argv, env, zone_id_cache,
                   cache_changed, dom_idx, zone_id, propagated, loaded, prev,
                   histVars, gen>>

\* _deploy_challenge: the creation of the record
dns_records_post(p) ==
    /\ pc[p] = "dns_records_post"
    /\ LET new_record == [name |-> RecordName(argv[p].domain), type |-> "TXT",
                          content |-> argv[p].token, ttl |-> RECORD_TTL]
       IN \/ \* CloudFlareAPIError, caught: log and return
             /\ Logged(p, Call("dns_records.post", zone_id[p], new_record.name,
                               new_record.content, None, FALSE))
             /\ pc' = [pc EXCEPT ![p] = "save_cache"]
             /\ UNCHANGED records
          \/ /\ zone_id[p] \in {zones[i].id : i \in DOMAIN zones}
             /\ Logged(p, Call("dns_records.post", zone_id[p], new_record.name,
                               new_record.content, FreshId(1), TRUE))
             /\ records' = DnsRecordsPost(zone_id[p], new_record)
             /\ pc' = [pc EXCEPT ![p] = "dns_propagated"]
    /\ UNCHANGED <<zones, dns, cache_file, now, runs, argv, env, zone_id_cache,
                   cache_changed, dom_idx, zone_id, record_id, propagated, loaded,
                   prev, histVars, gen>>

\* the loop on _dns_propagated giving up on a DNSException
dns_propagated_abort(p) ==
    /\ pc[p] = "dns_propagated"
    /\ \/ /\ propagated' = [propagated EXCEPT ![p] = FALSE]
          /\ pc' = [pc EXCEPT ![p] = "save_cache"]
       \/ LET found == <<RecordName(argv[p].domain), argv[p].token>> \in dns
          IN /\ propagated' = [propagated EXCEPT ![p] = found]
             /\ pc' = [pc EXCEPT ![p] = IF found THEN "save_cache" ELSE @]
    /\ UNCHANGED <<provVars, cache_file, now, runs, argv, env, zone_id_cache,
                   cache_changed, dom_idx, zone_id, record_id, log, loaded, prev,
                   histVars, gen>>

\* _deploy_challenge: one turn of the loop on _dns_propagated
dns_propagated(p) ==
    /\ pc[p] = "dns_propagated"
    /\ \/ \* DNSException: return False, then sleep
          /\ propagated' = [propagated EXCEPT ![p] = FALSE]
          /\ UNCHANGED pc
       \/ LET found == <<RecordName(argv[p].domain), argv[p].token>> \in dns
          IN /\ propagated' = [propagated EXCEPT ![p] = found]
             /\ pc' = [pc EXCEPT ![p] = IF found THEN "save_cache" ELSE @]
    /\ UNCHANGED <<provVars, cache_file, now, runs, argv, env, zone_id_cache,
                   cache_changed, dom_idx, zone_id, record_id, log, loaded, prev,
                   histVars, gen>>

\* _clean_challenge: _get_txt_record_id and the branch on its result
clean_challenge(p) ==
    /\ pc[p] = "get_txt_record_id"
    /\ argv[p].op = "clean_challenge"
    /\ LET record_name == RecordName(argv[p].domain)
           rid == get_txt_record_id(zone_id[p], record_name, argv[p].token)
       IN \/ \* CloudFlareAPIError, caught nowhere
             /\ Logged(p, Call("dns_records.get", zone_id[p], record_name,
                               argv[p].token, None, FALSE))
             /\ pc' = [pc EXCEPT ![p] = "crashed"]
             /\ UNCHANGED record_id
          \/ /\ Logged(p, Call("dns_records.get", zone_id[p], record_name,
                               argv[p].token, None, TRUE))
             /\ record_id' = [record_id EXCEPT ![p] = rid]
             /\ pc' = [pc EXCEPT ![p] = IF rid = None THEN "save_cache"
                                        ELSE "dns_records_delete"]
    /\ UNCHANGED <<provVars, cache_file, now, runs, argv, env, zone_id_cache,
                   cache_changed, dom_idx, zone_id, propagated, loaded, prev,
                   histVars, gen>>

\* _clean_challenge: the deletion of the record
dns_records_delete(p) ==
    /\ pc[p] = "dns_records_delete"
    /\ \/ \* CloudFlareAPIError, caught: log and return
          /\ Logged(p, Call("dns_records.delete", zone_id[p], None, None,
                            record_id[p], FALSE))
          /\ UNCHANGED records
       \/ /\ \E i \in DOMAIN records :
                records[i].zone = zone_id[p] /\ records[i].id = record_id[p]
          /\ Logged(p, Call("dns_records.delete", zone_id[p], None, None,
                            record_id[p], TRUE))
          /\ records' = DnsRecordsDelete(zone_id[p], record_id[p])
    /\ pc' = [pc EXCEPT ![p] = "save_cache"]
    /\ UNCHANGED <<zones, dns, cache_file, now, runs, argv, env, zone_id_cache,
                   cache_changed, dom_idx, zone_id, record_id, propagated, loaded,
                   prev, histVars, gen>>

\* _save_cache without the test of _cache_changed
save_cache_always(p) ==
    /\ pc[p] = "save_cache"
    /\ cache_file' = [isfile |-> TRUE, data |-> "json",
                      account |-> env[p].CF_API_EMAIL,
                      zone |-> zone_id_cache[p],
                      mode |-> CF_CACHEFMODE]
    /\ origin' = [origin EXCEPT !.file = origin.mem[p]]
    /\ wrote' = [wrote EXCEPT ![p] = TRUE]
    /\ pc' = [pc EXCEPT ![p] = "done"]
    /\ UNCHANGED <<provVars, now, runs, argv, env, zone_id_cache, cache_changed,
                   dom_idx, zone_id, record_id, propagated, log, loaded, prev,
                   evicted, gen>>

\* the cache file right after open(fname, "w"): no bytes; a file that open
\* creates has the mode the umask leaves
UMASK_MODE == 420
Truncated ==
    [isfile |-> TRUE, data |-> "empty", account |-> "", zone |-> EmptyCache,
     mode |-> IF cache_file.isfile THEN cache_file.mode ELSE UMASK_MODE]

\* a cache file holding the bytes of one json.dump followed by the tail of a
\* longer one
Torn ==
    [isfile |-> TRUE, data |-> "torn", account |-> "", zone |-> EmptyCache,
     mode |-> CF_CACHEFMODE]

\* _save_cache, first step: the test of _cache_changed and open(fname, "w")
save_open(p) ==
    /\ pc[p] = "save_cache"
    /\ IF ~cache_changed[p]
       THEN /\ pc' = [pc EXCEPT ![p] = "done"]
            /\ UNCHANGED <<cache_file, origin>>
       ELSE /\ cache_file' = Truncated
            /\ origin' = [origin EXCEPT !.file = NoOrigin]
            /\ pc' = [pc EXCEPT ![p] = "json_dump"]
    /\ UNCHANGED <<provVars, now, runs, argv, env, zone_id_cache, cache_changed,
                   dom_idx, zone_id, record_id, propagated, log, loaded, prev,
                   evicted, wrote, gen>>

\* _save_cache, second step: json.dump, the close that writes the bytes at
\* offset 0, and os.chmod.  Bytes that another process wrote since the open
\* stay in the file beyond the end of the new ones when they reach further.
save_dump(p) ==
    /\ pc[p] = "json_dump"
    /\ LET mine == [isfile |-> TRUE, data |-> "json",
                    account |-> env[p].CF_API_EMAIL,
                    zone |-> zone_id_cache[p], mode |-> CF_CACHEFMODE]
       IN \/ /\ cache_file' = mine
             /\ origin' = [origin EXCEPT !.file = origin.mem[p]]
          \/ /\ cache_file.data # "empty"
             /\ cache_file # mine
             /\ cache_file' = Torn
             /\ origin' = [origin EXCEPT !.file = NoOrigin]
    /\ wrote' = [wrote EXCEPT ![p] = TRUE]
    /\ pc' = [pc EXCEPT ![p] = "done"]
    /\ UNCHANGED <<provVars, now, runs, argv, env, zone_id_cache, cache_changed,
                   dom_idx, zone_id, record_id, propagated, log, loaded, prev,
                   evicted, gen>>

\* _save_cache, and the end of main
save_cache(p) ==
    /\ pc[p] = "save_cache"
    /\ IF ~cache_changed[p]
       THEN UNCHANGED <<cache_file, origin, wrote>>
       ELSE /\ cache_file' = [isfile |-> TRUE, data |-> "json",
                              account |-> env[p].CF_API_EMAIL,
                              zone |-> zone_id_cache[p],
                              mode |-> CF_CACHEFMODE]
            /\ origin' = [origin EXCEPT !.file = origin.mem[p]]
            /\ wrote' = [wrote EXCEPT ![p] = TRUE]
    /\ pc' = [pc EXCEPT ![p] = "done"]
    /\ UNCHANGED <<provVars, now, runs, argv, env, zone_id_cache, cache_changed,
                   dom_idx, zone_id, record_id, propagated, log, loaded, prev,
                   evicted, gen>>

\* time passes.  Only _zone_id_from_cache and _zone_id_to_cache read the clock,
\* the second right after the first on the same candidate, so the time that
\* passes anywhere is seen as ticks before a cache lookup.
Tick ==
    /\ now < MaxTime
    /\ \E p \in Procs : pc[p] = "get_zone_id"
    /\ now' = now + 1
    /\ UNCHANGED <<provVars, cache_file, runs, procVars, histVars, gen>>

\* the provider's changes reach the resolvers
DnsSync ==
    /\ dns # Published
    /\ dns' = Published
    /\ UNCHANGED <<zones, records, cache_file, now, runs, procVars, histVars, gen>>

Next ==
    \/ \E p \in Serial, o \in Actions, d \in Domains, t \in Tokens, acct \in Accounts :
          Start(p, o, d, t, acct)
    \/ \E p \in Serial, acct \in Accounts :
          Start(p, "deploy_cert", example_com, "t1", acct)
    \/ \E p \in Serial : load_cache(p)
    \/ \E p \in Serial : get_zone_id(p)
    \/ \E p \in Serial : zones_get(p)
    \/ \E p \in Serial : deploy_challenge(p)
    \/ \E p \in Serial : dns_records_post(p)
    \/ \E p \in Serial : dns_propagated(p)
    \/ \E p \in Serial : clean_challenge(p)
    \/ \E p \in Serial : dns_records_delete(p)
    \/ \E p \in Serial : save_cache(p)
    \/ Tick
    \/ DnsSync

Spec == Init /\ [][Next]_vars

----------------------------------------------------------------------------
(* The hook run serially under changing credentials *)

Accounts2 == {"acct", "other"}

InitAcct ==
    /\ zones \in SubLists(ZoneUniverse)
    /\ records = <<>>
    /\ IdleHook
    /\ gen = NoGen

NextAcct ==
    \/ \E p \in Serial, o \in Actions, d \in Domains, acct \in Accounts2 :
          Start(p, o, d, "t1", acct)
    \/ \E p \in Serial : load_cache(p)
    \/ \E p \in Serial : get_zone_id(p)
    \/ \E p \in Serial : zones_get(p)
    \/ \E p \in Serial : deploy_challenge(p)
    \/ \E p \in Serial : dns_records_post(p)
    \/ \E p \in Serial : dns_propagated(p)
    \/ \E p \in Serial : clean_challenge(p)
    \/ \E p \in Serial : dns_records_delete(p)
    \/ \E p \in Serial : save_cache(p)
    \/ Tick
    \/ DnsSync

SpecAcct == InitAcct /\ [][NextAcct]_vars

----------------------------------------------------------------------------
(* The hook on a cache file that earlier runs left *)

\* the zone of the last label, for an account that owns one
ComZone == [id |-> "Z0", name |-> <<"com">>]

\* the file _save_cache writes for an account and a cache
FileOf(acct, c) ==
    [isfile |-> TRUE, data |-> "json", account |-> acct, zone |-> c,
     mode |-> CF_CACHEFMODE]

\* the cache that a resolution of a.b.example.com at time 0 leaves
CacheAtZero(zs) ==
    IF zs = <<ComZone>>
    THEN zone_id_to_cache(EmptyCache, <<"com">>, ComZone.id, 0)
    ELSE zone_id_to_cache(zone_id_to_cache(EmptyCache, <<"com">>, None, 0),
                          example_com, ZoneUniverse[1].id, 0)

InitWarm ==
    /\ zones \in {<<ComZone>>, <<ZoneUniverse[1]>>}
    /\ records = <<>>
    /\ dns = Published
    /\ \E acct \in Accounts :
          \/ /\ cache_file = NoFile
             /\ origin = [file |-> NoOrigin, mem |-> [p \in Procs |-> NoOrigin]]
          \/ /\ cache_file = FileOf(acct, CacheAtZero(zones))
             /\ origin = [file |-> [k \in DOMAIN CacheAtZero(zones) |-> acct],
                          mem |-> [p \in Procs |-> NoOrigin]]
    /\ now = 0
    /\ runs = 0
    /\ IdleProcs
    /\ gen = NoGen

SpecWarm == InitWarm /\ [][Next]_vars

----------------------------------------------------------------------------
(* Hook processes run in parallel on one cache file *)

InitConc ==
    /\ zones = <<ZoneUniverse[1]>>
    /\ records = <<>>
    /\ IdleHook
    /\ gen = NoGen

NextConc ==
    \/ \E p \in Procs, o \in Actions, d \in Domains, acct \in Accounts :
          Start(p, o, d, "t1", acct)
    \/ \E p \in Procs : load_cache(p)
    \/ \E p \in Procs : get_zone_id(p)
    \/ \E p \in Procs : zones_get(p)
    \/ \E p \in Procs : deploy_challenge(p)
    \/ \E p \in Procs : dns_records_post(p)
    \/ \E p \in Procs : dns_propagated(p)
    \/ \E p \in Procs : clean_challenge(p)
    \/ \E p \in Procs : dns_records_delete(p)
    \/ \E p \in Procs : save_open(p)
    \/ \E p \in Procs : save_dump(p)
    \/ DnsSync

SpecConc == InitConc /\ [][NextConc]_vars

----------------------------------------------------------------------------
(* deploy_challenge with a loop on _dns_propagated that keeps turning *)

InitLive ==
    /\ zones \in {<<ZoneUniverse[1]>>, <<ZoneUniverse[1], ZoneUniverse[2]>>}
    /\ records = <<>>
    /\ IdleHook
    /\ gen = NoGen

NextLive ==
    \/ \E p \in Serial, d \in Domains, t \in Tokens, acct \in Accounts :
          Start(p, "deploy_challenge", d, t, acct)
    \/ \E p \in Serial : load_cache(p)
    \/ \E p \in Serial : get_zone_id(p)
    \/ \E p \in Serial : zones_get(p)
    \/ \E p \in Serial : deploy_challenge(p)
    \/ \E p \in Serial : dns_records_post(p)
    \/ \E p \in Serial : dns_propagated(p)
    \/ \E p \in Serial : save_cache(p)
    \/ Tick
    \/ DnsSync

\* while not self._dns_propagated(...): time.sleep(10) goes on to its next
\* query as long as the process runs
SpecLive ==
    /\ InitLive
    /\ [][NextLive]_vars
    /\ \A p \in Serial : WF_vars(dns_propagated(p))

----------------------------------------------------------------------------
(* _iter_domain on its own: one generator, resumed until it stops *)

\* next(gen): run the generator to its next yield or to its end
iter_domain(g) ==
    LET i == IF g.state = "created" THEN IterStart(g.domain) ELSE IterAdvance(g.dom_idx)
    IN IF IterHasNext(g.domain, i)
       THEN [g EXCEPT !.state = "yielded", !.dom_idx = i,
                      !.out = Append(@, IterYield(g.domain, i))]
       ELSE [g EXCEPT !.state = "stopped", !.dom_idx = i]

GenNext ==
    /\ gen.state # "stopped"
    /\ gen' = iter_domain(gen)
    /\ UNCHANGED <<provVars, cache_file, now, runs, procVars, histVars>>

Letters == {"a", "b", Dot}

\* the strings of at most n tokens
Strings(n) == UNION {[1..k -> Letters] : k \in 0..n}

InitIter ==
    /\ zones = <<>>
    /\ records = <<>>
    /\ IdleHook
    /\ gen \in {NewGen(d) : d \in Strings(MaxStrLen)}

NextIter == GenNext

SpecIter == InitIter /\ [][NextIter]_vars

----------------------------------------------------------------------------
(* Vocabulary of the properties *)

Range(s) == {s[i] : i \in DOMAIN s}

\* the calls of one kind in a log, in order
CallsOf(l, c) == SelectSeq(l, LAMBDA e : e.call = c)

\* the names of the provider zone queries of a log, in order
ZoneQueries(l) == LET q == CallsOf(l, "zones.get") IN [i \in 1..Len(q) |-> q[i].name]

RecordCalls == {"dns_records.get", "dns_records.post", "dns_records.delete"}

\* number of dot-separated labels of a name
NLabels(d) == Cardinality({i \in DOMAIN d : d[i] = Dot}) + 1

\* c is d or what follows one of the dots of d
IsSuffix(c, d) ==
    /\ Len(c) <= Len(d)
    /\ SubSeq(d, Len(d) - Len(c) + 1, Len(d)) = c
    /\ Len(c) = Len(d) \/ d[Len(d) - Len(c)] = Dot

\* the names of the provider zones that are suffixes of d
SuffixZoneNames(d) == {z.name : z \in {y \in Range(zones) : IsSuffix(y.name, d)}}

\* the ids of the provider zones named n
IdsOfZone(n) == {z.id : z \in {y \in Range(zones) : y.name = n}}

\* what follows the last dot of d
LastLabel(d) ==
    LET dots == {i \in DOMAIN d : d[i] = Dot}
        last == IF dots = {} THEN 0 ELSE CHOOSE i \in dots : \A j \in dots : j <= i
    IN SubSeq(d, last + 1, Len(d))

\* a record (name, content) of the challenge of process p exists at the provider
ChallengePresent(p) ==
    \E r \in Range(records) :
        r.name = RecordName(argv[p].domain) /\ r.content = argv[p].token

\* two argument lists name the same challenge
SameChallenge(a, b) == a.domain = b.domain /\ a.token = b.token

----------------------------------------------------------------------------
(* Zone resolution *)

\* C1: started with an empty cache on a domain of which two or more suffixes
\* are provider zones, _get_zone_id returns the id of the suffix zone with the
\* most labels, and its last provider query is the one for that suffix.
C1_MostSpecificZone ==
    \A p \in Procs :
        LET names == SuffixZoneNames(argv[p].domain)
            best == CHOOSE n \in names : \A m \in names : NLabels(m) <= NLabels(n)
            q == ZoneQueries(log[p])
        IN (/\ pc[p] = "get_txt_record_id"
            /\ loaded[p] = EmptyCache
            /\ Cardinality(names) >= 2)
           => /\ zone_id[p] \in IdsOfZone(best)
              /\ Len(q) > 0
              /\ q[Len(q)] = best

\* C2: _iter_domain yields exactly n candidates for a domain of n labels, each a
\* suffix of the domain, in strictly decreasing label count, the first being the
\* full domain and the last the single rightmost label.
C2_WalkerMostSpecificFirst ==
    gen.state = "stopped" =>
        LET n == NLabels(gen.domain)
            out == gen.out
        IN /\ Len(out) = n
           /\ \A k \in 1..Len(out) : IsSuffix(out[k], gen.domain)
           /\ \A k \in 1..(Len(out) - 1) : NLabels(out[k]) > NLabels(out[k + 1])
           /\ out[1] = gen.domain
           /\ out[Len(out)] = LastLabel(gen.domain)

\* C3: a candidate with an unexpired confirmed-absent cache entry (id None) is
\* never the subject of a provider zone query: the resolver is never about to
\* query the provider for a candidate that has such an entry.
C3_ConfirmedAbsentSkipsQuery ==
    \A p \in Procs :
        pc[p] = "zones_get" =>
            LET dom == IterYield(argv[p].domain, dom_idx[p])
                c == zone_id_cache[p]
            IN ~(/\ dom \in DOMAIN c
                 /\ c[dom].id = None
                 /\ now - c[dom].created < CF_CACHETIME)

\* C4: a clean_challenge that follows a completed deploy_challenge of the same
\* domain, token and account, with every entry of the loaded cache younger than
\* the TTL, issues no provider zone query.
C4_CleanAfterDeployNoZoneQuery ==
    \A p \in Procs :
        (/\ argv[p].op = "clean_challenge"
         /\ pc[p] \notin {"idle", "load_cache"}
         /\ prev[p].pc = "done"
         /\ prev[p].argv.op = "deploy_challenge"
         /\ SameChallenge(prev[p].argv, argv[p])
         /\ prev[p].account = env[p].CF_API_EMAIL
         /\ prev[p].zone_id # None
         /\ loaded[p] # EmptyCache
         /\ \A k \in DOMAIN loaded[p] : now - loaded[p][k].created < CF_CACHETIME)
        => Len(ZoneQueries(log[p])) = 0

\* C5: when zone resolution fails (no suffix of the domain is a zone), the
\* handler issues no record call: every record lookup, creation and deletion
\* a process issues is on a zone id that resolution returned.
C5_NoRecordCallWithoutZone ==
    \A p \in Procs :
        \A i \in DOMAIN log[p] :
            log[p][i].call \in RecordCalls => log[p][i].zone # None

\* C6: the provider zone queries of one resolution go in order of decreasing
\* label count and none follows the first hit; with an empty cache and only
\* example.com a zone, a.b.example.com takes exactly the three queries
\* a.b.example.com, b.example.com, example.com and returns example.com's id.
C6_ThreeQueriesMostSpecificFirst ==
    \A p \in Procs :
        LET q == ZoneQueries(log[p]) IN
        /\ \A i \in 1..(Len(q) - 1) : NLabels(q[i]) > NLabels(q[i + 1])
        /\ \A i \in 1..(Len(q) - 1) : ZonesByName(q[i]) = <<>>
        /\ (/\ pc[p] = "get_txt_record_id"
            /\ loaded[p] = EmptyCache
            /\ argv[p].domain = a_b_example_com
            /\ {z.name : z \in Range(zones)} = {example_com})
           => /\ q = <<a_b_example_com, b_example_com, example_com>>
              /\ zone_id[p] \in IdsOfZone(example_com)

----------------------------------------------------------------------------
(* Record reconciliation *)

\* C7: a deploy_challenge run that resolved a zone and found or created the
\* challenge record has, when it ends, seen a TXT query return the token.
C7_DeployWaitsForPropagation ==
    \A p \in Procs :
        (/\ pc[p] = "done"
         /\ argv[p].op = "deploy_challenge"
         /\ zone_id[p] # None
         /\ \/ record_id[p] # None
            \/ \E i \in DOMAIN log[p] :
                  log[p][i].call = "dns_records.post" /\ log[p][i].ok)
        => propagated[p]

\* the invocation before the current one of p was a completed deploy_challenge
\* of the same domain and token that created the record
FollowsCreatingDeploy(p) ==
    /\ prev[p].pc = "done"
    /\ prev[p].argv.op = "deploy_challenge"
    /\ SameChallenge(prev[p].argv, argv[p])
    /\ \E i \in DOMAIN prev[p].log :
          prev[p].log[i].call = "dns_records.post" /\ prev[p].log[i].ok

\* C8: of two successive deploy_challenge runs with the same domain and token,
\* the first having created the record, the second finds the record and issues
\* no creation call: one creation call in both runs together.
C8_DeployTwiceCreatesOnce ==
    \A p \in Procs :
        (/\ argv[p].op = "deploy_challenge"
         /\ pc[p] \in {"save_cache", "done"}
         /\ FollowsCreatingDeploy(p))
        => /\ record_id[p] # None
           /\ Len(CallsOf(prev[p].log, "dns_records.post"))
                + Len(CallsOf(log[p], "dns_records.post")) = 1

\* C8 witness: a second deploy_challenge of the same challenge has ended after
\* the first created the record.
W8_SecondDeployEnded ==
    \E p \in Procs :
        /\ argv[p].op = "deploy_challenge"
        /\ pc[p] = "done"
        /\ FollowsCreatingDeploy(p)
        /\ \E i \in DOMAIN log[p] : log[p][i].call = "dns_records.get" /\ log[p][i].ok

\* C9: while a clean_challenge runs for a (domain, token) of which the provider
\* holds no TXT record, no step changes the provider's records or issues a
\* delete call, and the handler is never about to issue one.
C9_CleanAbsentIsNoOp ==
    [][\A p \in Procs :
          (/\ argv[p].op = "clean_challenge"
           /\ pc[p] \notin {"idle", "done", "crashed"}
           /\ ~ChallengePresent(p))
          => /\ records' = records
             /\ pc[p] # "dns_records_delete"
             /\ pc'[p] # "dns_records_delete"
             /\ CallsOf(log'[p], "dns_records.delete")
                  = CallsOf(log[p], "dns_records.delete")]_vars

\* C9 witness: a clean_challenge has ended, having looked up in a resolved zone
\* a record that is not there, next to a record of another token that is.
W9_CleanOfAbsentEnded ==
    \E p \in Procs :
        /\ argv[p].op = "clean_challenge"
        /\ pc[p] = "done"
        /\ ~ChallengePresent(p)
        /\ zone_id[p] # None
        /\ \E i \in DOMAIN log[p] : log[p][i].call = "dns_records.get" /\ log[p][i].ok
        /\ Len(CallsOf(log[p], "dns_records.delete")) = 0
        /\ records # <<>>

\* C10: records of one name and different contents do not collide.  A
\* deploy_challenge whose (name, content) is not at the provider goes on to the
\* creation call whatever other contents the name has, and the creation adds
\* that record and keeps every other; a step removes at most one record, and
\* only one whose (name, content) is that of a running clean_challenge.
C10_ContentsDoNotCollide ==
    [][/\ \A p \in Procs :
            /\ (/\ argv[p].op = "deploy_challenge"
                /\ pc[p] = "get_txt_record_id"
                /\ pc'[p] \notin {"get_txt_record_id", "crashed"}
                /\ zone_id[p] # None
                /\ ~ChallengePresent(p))
               => pc'[p] = "dns_records_post"
            /\ (pc[p] = "dns_records_post" /\ pc'[p] = "dns_propagated")
               => /\ Range(records) \subseteq Range(records')
                  /\ \E r \in Range(records') \ Range(records) :
                        /\ r.zone = zone_id[p]
                        /\ r.name = RecordName(argv[p].domain)
                        /\ r.content = argv[p].token
       /\ LET gone == Range(records) \ Range(records')
          IN /\ Cardinality(gone) <= 1
             /\ \A r \in gone :
                   \E p \in Procs :
                      /\ argv[p].op = "clean_challenge"
                      /\ pc[p] = "dns_records_delete"
                      /\ r.name = RecordName(argv[p].domain)
                      /\ r.content = argv[p].token
       /\ \A r \in Range(records') \ Range(records) :
             \E p \in Procs :
                /\ pc[p] = "dns_records_post"
                /\ r.name = RecordName(argv[p].domain)
                /\ r.content = argv[p].token]_vars

\* C10 witness: a clean_challenge has deleted the record that the
\* deploy_challenge before it created, and a record of the same name with
\* another content is still there.
W10_CleanedBesideOtherContent ==
    \E p \in Procs :
        /\ argv[p].op = "clean_challenge"
        /\ pc[p] = "done"
        /\ FollowsCreatingDeploy(p)
        /\ \E i \in DOMAIN log[p] : log[p][i].call = "dns_records.delete" /\ log[p][i].ok
        /\ ~ChallengePresent(p)
        /\ \E r \in Range(records) :
              r.name = RecordName(argv[p].domain) /\ r.content # argv[p].token

----------------------------------------------------------------------------
(* The cache file *)

\* the positions of main between _load_cache and the end of _save_cache
InHandler == {"get_zone_id", "zones_get", "get_txt_record_id", "dns_records_post",
              "dns_propagated", "dns_records_delete", "save_cache"}

\* C11: a cache file written under another account than the current one
\* loads as an empty cache, in which every name of the file is unknown; and
\* whatever the sequence of accounts, every entry of the file, and of a
\* process's cache, was obtained under the account it is kept under.
C11_NoCrossAccountEntries ==
    /\ \A p \in Procs :
          (/\ pc[p] \in InHandler
           /\ cache_file.isfile
           /\ cache_file.account # env[p].CF_API_EMAIL)
          => /\ loaded[p] = EmptyCache
             /\ \A k \in DOMAIN cache_file.zone :
                    zone_id_from_cache(loaded[p], k, now).ret = None
    /\ \A k \in DOMAIN cache_file.zone : origin.file[k] = cache_file.account
    /\ \A p \in Procs : \A k \in DOMAIN zone_id_cache[p] :
          origin.mem[p][k] = env[p].CF_API_EMAIL

\* a run under one account saved the file, and the next run, under the other
\* account, loaded nothing and saved its own entries
W11_SavedAfterAccountChange ==
    \E p \in Procs :
        /\ pc[p] = "done"
        /\ wrote[p]
        /\ prev[p].pc = "done"
        /\ prev[p].account # env[p].CF_API_EMAIL
        /\ prev[p].account # ""
        /\ loaded[p] = EmptyCache
        /\ cache_file.account = env[p].CF_API_EMAIL
        /\ DOMAIN cache_file.zone # {}

\* the times at which a lookup can follow a store made at time t
LookupTimes(t) == t..(t + CF_CACHETIME + 1)

\* C12: after _zone_id_to_cache(name, v) a lookup of name at an age below the
\* TTL returns v and leaves the cache alone; at an age of the TTL or more it
\* returns None and deletes the entry, so that later lookups return None too.
\* Stated of every store and of every lookup of a cached name the resolver makes.
C12_CacheRoundTrip ==
    [][\A p \in Procs :
          LET dom == IterYield(argv[p].domain, dom_idx[p])
              c == zone_id_cache[p]
              c1 == zone_id_cache'[p]
          IN /\ (pc[p] = "zones_get" /\ pc'[p] \in {"get_zone_id", "get_txt_record_id"})
                => LET zs == ZonesByName(dom)
                       v == IF Len(zs) = 0 THEN None ELSE zs[1].id
                   IN \A t \in LookupTimes(now) :
                         LET r == zone_id_from_cache(c1, dom, t)
                         IN IF t - now < CF_CACHETIME
                            THEN r.ret = v /\ r.cache = c1
                            ELSE /\ r.ret = None
                                 /\ dom \notin DOMAIN r.cache
                                 /\ \A u \in LookupTimes(t) :
                                       zone_id_from_cache(r.cache, dom, u).ret = None
             /\ (/\ pc[p] = "get_zone_id"
                 /\ pc'[p] # "get_zone_id"
                 /\ IterHasNext(argv[p].domain, dom_idx[p])
                 /\ dom \in DOMAIN c)
                => IF now - c[dom].created < CF_CACHETIME
                   THEN /\ c1 = c
                        /\ IF c[dom].id # None
                           THEN zone_id'[p] = c[dom].id /\ pc'[p] = "get_txt_record_id"
                           ELSE pc'[p] = "zones_get"
                   ELSE /\ pc'[p] = "zones_get"
                        /\ dom \notin DOMAIN c1
                        /\ \A k \in DOMAIN c \ {dom} : k \in DOMAIN c1 /\ c1[k] = c[k]
                        /\ \A u \in LookupTimes(now) :
                              zone_id_from_cache(c1, dom, u).ret = None]_vars

\* one resolution found the entry of one candidate expired and deleted it, and
\* took its zone id from the unexpired entry of another without a query
W12_EvictedOneServedOther ==
    \E p \in Procs :
        /\ pc[p] = "get_txt_record_id"
        /\ evicted[p] # {}
        /\ \E k \in DOMAIN loaded[p] :
              /\ loaded[p][k].id = zone_id[p]
              /\ zone_id[p] # None
              /\ k \notin Range(ZoneQueries(log[p]))

----------------------------------------------------------------------------
(* Errors and the dispatcher *)

\* the exit status of the hook process once main is over: 0 when main returned,
\* 1 when an exception left it
ExitStatus(p) == IF pc[p] = "done" THEN 0 ELSE 1

Ended(p) == pc[p] \in {"done", "crashed"}

\* the provider call of the log entry raised CloudFlareAPIError
Failed(e) == ~e.ok

\* C13: whichever provider call of a deploy or clean run raises an API error
\* (zone query, record query, create, delete), no exception leaves main: a run
\* that ended, ended with exit status 0.
C13_ProviderErrorsAbsorbed ==
    \A p \in Procs :
        (/\ Ended(p)
         /\ argv[p].op \in Actions
         /\ \E i \in DOMAIN log[p] : Failed(log[p][i]))
        => ExitStatus(p) = 0

\* the positions of main inside the handler call
HandlerPcs == InHandler \ {"save_cache"}

\* C14: main runs a known action as _load_cache, then the handler, then
\* _save_cache, in that order and each once; for any other action name it
\* loads nothing, calls no handler and no provider, writes no cache file, and
\* ends normally.
C14_DispatcherSequence ==
    [][\A p \in Procs :
          /\ (pc[p] \in {"idle", "done", "crashed"} /\ pc'[p] # pc[p] /\ argv'[p].op \in Actions)
             => pc'[p] = "load_cache"
          /\ pc[p] = "load_cache" => pc'[p] \in {"load_cache", "get_zone_id"}
          /\ pc[p] \in HandlerPcs => pc'[p] \in HandlerPcs \cup {"save_cache"}
          /\ pc[p] = "save_cache" => pc'[p] \in {"save_cache", "done"}
          /\ (runs' # runs /\ argv'[p] # NoArgv /\ argv'[p].op \notin Actions)
             => /\ pc'[p] = "done"
                /\ ExitStatus(p)' = 0
                /\ log'[p] = <<>>
                /\ loaded'[p] = EmptyCache
                /\ ~wrote'[p]
                /\ UNCHANGED <<provVars, cache_file>>]_vars

----------------------------------------------------------------------------
(* What reaches the cache file *)

\* the current run of p stored an entry: a zone query of its came back
Stored(p) == \E i \in DOMAIN log[p] : log[p][i].call = "zones.get" /\ log[p][i].ok

\* the current run of p found an entry expired and deleted it
Invalidated(p) == evicted[p] # {}

\* C15: an invocation writes the cache file only if it added or invalidated at
\* least one entry; an invocation that stored and invalidated nothing (every
\* candidate it needed came from an unexpired entry) leaves the file as it was.
C15_WritesOnlyIfChanged ==
    [][\A p \in Procs :
          /\ wrote'[p] => Stored(p)' \/ Invalidated(p)'
          /\ (pc[p] = "save_cache" /\ pc'[p] = "done" /\ ~Stored(p) /\ ~Invalidated(p))
             => ~wrote'[p] /\ cache_file' = cache_file]_vars

\* a run took its zone id from an unexpired entry, stored and deleted nothing,
\* and ended without writing the file
W15_ServedFromCacheEnded ==
    \E p \in Procs :
        /\ pc[p] = "done"
        /\ argv[p].op \in Actions
        /\ zone_id[p] # None
        /\ ~Stored(p)
        /\ ~Invalidated(p)
        /\ ~wrote[p]
        /\ cache_file.isfile

\* the positions of main between the return of _get_zone_id and _save_cache
AfterResolution == {"get_txt_record_id", "dns_records_post", "dns_propagated",
                    "dns_records_delete", "save_cache"}

\* C19: in a run that no provider error ends, an expired entry that
\* _zone_id_from_cache deleted during the resolution leaves the cache dirty
\* for the rest of the handler, and the file the run writes does not hold that
\* entry with its old timestamp.
C19_EvictionPersisted ==
    \A p \in Procs :
        Invalidated(p) =>
            /\ pc[p] \in AfterResolution => cache_changed[p]
            /\ pc[p] = "done"
               => /\ wrote[p]
                  /\ cache_file.zone = zone_id_cache[p]
                  /\ \A e \in evicted[p] :
                        e.name \in DOMAIN cache_file.zone
                        => cache_file.zone[e.name].created # e.entry.created

\* a run deleted an expired entry, ended, and wrote the file
W19_EvictedThenSaved ==
    \E p \in Procs :
        /\ pc[p] = "done"
        /\ Invalidated(p)
        /\ wrote[p]
        /\ \E e \in evicted[p] : e.name \in DOMAIN cache_file.zone

----------------------------------------------------------------------------
(* Processes in parallel *)

\* the ids of the provider zones that are suffixes of d
SuffixZoneIds(d) == {z.id : z \in {y \in Range(zones) : IsSuffix(y.name, d)}}

\* C16: when hook processes share the cache file without a lock, nothing
\* worse happens to the cache than a stale read or a lost update: no process
\* fails on the file, the file after a save is the cache of the process that
\* saved, every zone id in it is one the provider returned for that very
\* name, and every record call acts on a zone id the provider returned for a
\* suffix of the domain.
C16_OnlyStaleReadsAndLostUpdates ==
    [][/\ \A p \in Procs :
             /\ (pc[p] = "load_cache" /\ pc'[p] # "load_cache") => pc'[p] = "get_zone_id"
             /\ (pc[p] = "json_dump" /\ pc'[p] = "done")
                => cache_file' = FileOf(env[p].CF_API_EMAIL, zone_id_cache[p])
             /\ \A i \in DOMAIN log'[p] :
                   log'[p][i].call \in RecordCalls
                   => log'[p][i].zone \in SuffixZoneIds(argv'[p].domain)
       /\ \A k \in DOMAIN cache_file'.zone :
             cache_file'.zone[k].id # None => cache_file'.zone[k].id \in IdsOfZone(k)]_vars

\* the creation calls of the current run of p
Posts(p) == CallsOf(log[p], "dns_records.post")

\* the provider's TXT records with the name and content of the challenge of p
ChallengeRecords(p) ==
    SelectSeq(records, LAMBDA r : /\ r.name = RecordName(argv[p].domain)
                                   /\ r.content = argv[p].token)

\* C18: two deploy_challenge processes running at the same time for the same
\* domain and token issue at most one creation call between them, and the
\* provider never holds two TXT records with the same name and content.
C18_ConcurrentDeploysCreateOnce ==
    \A p, q \in Procs :
        (/\ p # q
         /\ argv[p].op = "deploy_challenge"
         /\ argv[q].op = "deploy_challenge"
         /\ SameChallenge(argv[p], argv[q])
         /\ ~Ended(p)
         /\ ~Ended(q))
        => /\ Len(Posts(p)) + Len(Posts(q)) <= 1
           /\ Len(ChallengeRecords(p)) <= 1

\* C18, amended: each of the two processes issues at most one creation call,
\* and only when its own lookup has just found no record with that name and
\* content; both lookups can come before both creations, so two creation
\* calls can be issued and the provider can hold two such records, but never
\* more than one per process.
C18_EachDeployCreatesAfterOwnLookup ==
    [][\A p \in Procs :
          /\ (pc[p] = "get_txt_record_id" /\ pc'[p] = "dns_records_post")
             => DnsRecordsGet(zone_id[p], RecordName(argv[p].domain), argv[p].token) = <<>>
          /\ (pc[p] = "dns_records_post" /\ pc'[p] # "dns_records_post")
             => /\ record_id[p] = None
                /\ Len(Posts(p)') = 1
          /\ Len(Posts(p)') <= 1
          /\ Len(ChallengeRecords(p)') <= Cardinality(Procs)]_vars

\* both processes are in the same deploy, each created a record, and the
\* provider holds the two
W18_BothCreated ==
    \E p, q \in Procs :
        /\ p # q
        /\ argv[p].op = "deploy_challenge"
        /\ argv[q].op = "deploy_challenge"
        /\ SameChallenge(argv[p], argv[q])
        /\ ~Ended(p)
        /\ ~Ended(q)
        /\ Len(Posts(p)) = 1 /\ Posts(p)[1].ok
        /\ Len(Posts(q)) = 1 /\ Posts(q)[1].ok
        /\ Len(ChallengeRecords(p)) = 2

----------------------------------------------------------------------------
(* The wait for propagation *)

\* a TXT query for the challenge of p returns its token
Visible(p) == <<RecordName(argv[p].domain), argv[p].token>> \in dns

\* C17: the loop on _dns_propagated has no ceiling and takes a failed
\* resolution for "not yet": a query that fails or lacks the token leaves
\* deploy in the loop, the loop is left only by a query that returns the
\* token; if from some point on the token is always returned deploy
\* eventually returns, and if it never is deploy stays in the loop for ever.
C17_PollsUntilPropagated ==
    /\ [][\A p \in Procs :
             pc[p] = "dns_propagated"
             => \/ pc'[p] = "dns_propagated" /\ UNCHANGED <<argv, log, records>>
                \/ pc'[p] = "save_cache" /\ Visible(p) /\ propagated'[p]]_vars
    /\ \A p \in Procs :
          /\ []((pc[p] = "dns_propagated" /\ []Visible(p)) => <>(pc[p] = "save_cache"))
          /\ []((pc[p] = "dns_propagated" /\ []~Visible(p)) => [](pc[p] = "dns_propagated"))

\* a deploy created its record, waited until a query returned the token, and
\* left the loop
W17_ReturnedOncePropagated ==
    \E p \in Procs :
        /\ pc[p] = "save_cache"
        /\ propagated[p]
        /\ Len(Posts(p)) = 1
        /\ Posts(p)[1].ok
        /\ Visible(p)

====
